---- MODULE Spec2Model ----
(***************************************************************************)
(* DynamicFields v3.0 (src/unnamed/part_002): the field group lifecycle    *)
(* engine.  The page is modelled as the children of the fields container   *)
(* in document order (tree), the attributes of every element ever created  *)
(* (nodes), and the add / remove controls in document order.  Every        *)
(* method of the class is an operator from a page-and-instances record S   *)
(* to the record after the call, so that a method calling another one      *)
(* (init -> addField, removeField -> removeSpecificField) is composed the  *)
(* way the code composes it.                                               *)
(***************************************************************************)
EXTENDS Integers, Sequences, FiniteSets, TLC

VARIABLES nodes, tree, addBtns, removeBtns, rowListeners,
          config, fieldCounter, isInitialized, elements,
          timers, log, lastOp, assigned, events, calls, held

vars == <<nodes, tree, addBtns, removeBtns, rowListeners,
          config, fieldCounter, isInitialized, elements,
          timers, log, lastOp, assigned, events, calls, held>>

----------------------------------------------------------------------------
(* Bounds of the model *)

MaxNodes == 5
MaxTimers == 2
MaxListeners == 2
MaxSubs == 2
MaxHeld == 1

(* Values standing for attribute states *)

\* data-field-group absent / present with an empty value (authored markup)
NoAttr == 0 - 1
Blank == 0
\* an element reference that is null / undefined
Null == 0

----------------------------------------------------------------------------
(* The page *)

\* an element carrying (or not) data-field-group and data-group-name
\* fg: data-field-group, gn: data-group-name, hidden: hideElement applied,
\* req / val: it holds a required input / that input has a value,
\* by: the instance whose createNewField made it (0: authored or a template),
\* form: the form whose fields container holds it,
\* name: the name / id / data-name of its input, lfor: the `for` of its label,
\* both as the indices of the `${fieldPrefix}-${index}-` prefixes in front of
\* the authored value (outermost first), label: where the label stands
\* relative to the input ("none": the field has no label)
Node(fg, gn, hidden, by) ==
    [fg |-> fg, gn |-> gn, hidden |-> hidden, req |-> FALSE, val |-> FALSE,
     by |-> by, form |-> 1, name |-> <<>>, lfor |-> <<>>, label |-> "none"]

\* the same field authored with a <label for> before / after its input
Labelled(n, where) == [n EXCEPT !.label = where]

\* the same field authored with a required input
Required(n) == [n EXCEPT !.req = TRUE]

\* an add or remove control
Button(gn) == [gn |-> gn, disabled |-> FALSE, display |-> "", bound |-> FALSE,
               listeners |-> <<>>, form |-> 1]

\* the same element authored inside form f
InForm(x, f) == [x EXCEPT !.form = f]

\* the ids of the form elements of the page, in document order; each holds
\* one fields container
FormIds == {1, 2}

\* querySelector / querySelectorAll on a scope: the whole document (0) or a form
InScope(x, scope) == scope = 0 \/ x.form = scope

\* the record of one emit() call
Ev(type, i, count, limit, index, node) ==
    [type |-> type, inst |-> i, count |-> count, limit |-> limit,
     index |-> index, node |-> node]

Cur == [nodes |-> nodes, tree |-> tree, addBtns |-> addBtns,
        removeBtns |-> removeBtns, rowListeners |-> rowListeners,
        config |-> config, fieldCounter |-> fieldCounter,
        isInitialized |-> isInitialized, elements |-> elements,
        timers |-> timers, log |-> <<>>, ret |-> "none", assigned |-> assigned,
        events |-> events, calls |-> <<>>, held |-> held]

\* a parentNode test that takes every element for attached
Attached_Always(S, id) == TRUE

\* fieldElement.parentNode is set
Attached(S, id) == \E k \in 1..Len(S.tree) : S.tree[k] = id

\* querySelector: the position of the first match in document order, 0 if
\* none; matches[k] tells whether the k-th element matches the selector
First(matches) ==
    IF \E k \in 1..Len(matches) : matches[k]
    THEN CHOOSE k \in 1..Len(matches) : matches[k] /\ \A j \in 1..(k-1) : ~matches[j]
    ELSE 0

----------------------------------------------------------------------------
(* Counting *)

\* the ownership filter of getOwnFieldGroups
IsOwn(n, groupName) == n.fg # NoAttr /\ (n.gn = "" \/ n.gn = groupName)

getOwnFieldGroups(S, i) ==
    SelectSeq(S.tree, LAMBDA id :
        /\ S.nodes[id].form = S.elements[i].fieldsContainer
        /\ IsOwn(S.nodes[id], S.config[i].groupName))

getCurrentFieldCount(S, i) == Len(getOwnFieldGroups(S, i))

----------------------------------------------------------------------------
(* Event notifier *)

\* the members every plain object inherits from Object.prototype
ObjectPrototype == {"constructor"}

\* this.events = {}
NoEvents == [n \in {} |-> <<>>]

\* this.events[eventName]: an own array, an inherited member, or undefined
Lookup(ev, eventName) ==
    IF eventName \in DOMAIN ev THEN [kind |-> "array", subs |-> ev[eventName]]
    ELSE IF eventName \in ObjectPrototype THEN [kind |-> "inherited", subs |-> <<>>]
    ELSE [kind |-> "undefined", subs |-> <<>>]

\* this.events[eventName] = list
SetKey(ev, eventName, list) ==
    [n \in DOMAIN ev \cup {eventName} |-> IF n = eventName THEN list ELSE ev[n]]

RECURSIVE Registered(_, _)
\* the number of callbacks held under the given keys of this.events
Registered(ev, keys) ==
    IF keys = {} THEN 0
    ELSE LET n == CHOOSE x \in keys : TRUE
         IN Len(ev[n]) + Registered(ev, keys \ {n})

\* a callback: fn is its identity, throws tells whether it raises when called
Callback(fn, throws) == [fn |-> fn, throws |-> throws]

\* a forEach without try / catch: the first raising callback ends it
Invocations_Uncaught(subs, ev) ==
    LET firstThrow == First([k \in 1..Len(subs) |-> subs[k].throws])
        upto == IF firstThrow = 0 THEN Len(subs) ELSE firstThrow
    IN [k \in 1..upto |-> [fn |-> subs[k].fn, ev |-> ev, caught |-> FALSE]]

RECURSIVE addField(_, _, _)
RECURSIVE removeField(_, _)

\* a callback that calls addField() or removeField() on the instance it is
\* registered with
Reentrant(fn, does) == [fn |-> fn, throws |-> FALSE, does |-> does]

\* callback.call(this, {...}): what running the callback does to the state
Called(S, callback, i) ==
    IF "does" \notin DOMAIN callback THEN S
    ELSE IF callback.does = "addField"
         THEN [addField(S, i, TRUE) EXCEPT !.ret = S.ret]
         ELSE [removeField(S, i) EXCEPT !.ret = S.ret]

\* what a callback finds on the controls of the instance: the disabled
\* property of both and the display style of the remove control
Controls(S, i) ==
    LET a == S.elements[i].addButton
        rb == S.elements[i].removeButton
    IN [add |-> a # Null /\ S.addBtns[a].disabled,
        remove |-> rb # Null /\ S.removeBtns[rb].disabled,
        display |-> IF rb = Null THEN "" ELSE S.removeBtns[rb].display]

RECURSIVE forEach(_, _, _)
\* this.events[eventName].forEach(...): every callback of the list runs, in
\* order, a raised error being caught; calls records each invocation with
\* the field count the instance has at that moment
forEach(S, subs, ev) ==
    IF subs = <<>> THEN S
    ELSE LET cb == Head(subs)
             S1 == [S EXCEPT !.calls =
                       Append(@, [fn |-> cb.fn, ev |-> ev, caught |-> cb.throws,
                                  total |-> getCurrentFieldCount(S, ev.inst),
                                  controls |-> Controls(S, ev.inst)])]
         IN forEach(Called(S1, cb, ev.inst), Tail(subs), ev)

\* an emit that leaves out the try / catch
emit_Uncaught(S, ev) ==
    LET l == Lookup(S.events[ev.inst], ev.type)
    IN [S EXCEPT !.log = Append(@, ev),
                 !.calls = IF l.kind = "array"
                           THEN @ \o Invocations_Uncaught(l.subs, ev) ELSE @]

\* log records the emit() call, calls the callbacks it invoked
emit(S, ev) ==
    LET l == Lookup(S.events[ev.inst], ev.type)
        S1 == [S EXCEPT !.log = Append(@, ev)]
    IN IF l.kind = "array" THEN forEach(S1, l.subs, ev) ELSE S1

\* the public emit(eventName): an inherited member has no forEach
publicEmit(S, i, eventName) ==
    IF Lookup(S.events[i], eventName).kind = "inherited" THEN [S EXCEPT !.ret = "throw"]
    ELSE [emit(S, Ev(eventName, i, 0, 0, 0, Null)) EXCEPT !.ret = "self"]

on(S, i, eventName, callback) ==
    LET l == Lookup(S.events[i], eventName)
    IN IF l.kind = "inherited" THEN [S EXCEPT !.ret = "throw"]
       ELSE [S EXCEPT !.events[i] = SetKey(@, eventName, Append(l.subs, callback)),
                      !.ret = "self"]

\* this.events[eventName].filter(cb => cb !== callback)
Others(subs, callback) == SelectSeq(subs, LAMBDA cb : cb # callback)

\* off(eventName, callback)
off(S, i, eventName, callback) ==
    LET l == Lookup(S.events[i], eventName)
    IN IF l.kind = "undefined" THEN [S EXCEPT !.ret = "self"]
       ELSE IF l.kind = "inherited" THEN [S EXCEPT !.ret = "throw"]
       ELSE [S EXCEPT !.events[i] = SetKey(@, eventName, Others(l.subs, callback)),
                      !.ret = "self"]

\* off(eventName)
offAll(S, i, eventName) ==
    IF Lookup(S.events[i], eventName).kind = "undefined" THEN [S EXCEPT !.ret = "self"]
    ELSE [S EXCEPT !.events[i] = SetKey(@, eventName, <<>>), !.ret = "self"]

----------------------------------------------------------------------------
(* Control state synchronizer *)

\* a disabled property that is never written
updateButtonState_Skipped(btns, b, disabled) == btns

updateButtonState(btns, b, disabled) ==
    IF b = Null THEN btns ELSE [btns EXCEPT ![b].disabled = disabled]

\* an add control that stays enabled at the limit
AddDisabled_Above(count, maxFields) == count > maxFields

AddDisabled(count, maxFields) == count >= maxFields

RemoveDisabled(count, minFields) == count <= minFields

updateButtonStates(S, i) ==
    LET currentCount == getCurrentFieldCount(S, i)
        addButtonDisabled == AddDisabled(currentCount, S.config[i].maxFields)
        removeButtonDisabled == RemoveDisabled(currentCount, S.config[i].minFields)
        rb == S.elements[i].removeButton
        S1 == [S EXCEPT !.addBtns =
                 updateButtonState(@, S.elements[i].addButton, addButtonDisabled)]
        S2 == IF rb = Null THEN S1
              ELSE [S1 EXCEPT
                      !.removeBtns[rb].disabled = removeButtonDisabled,
                      !.removeBtns[rb].display =
                          IF S.config[i].hideRemoveButtonWhenMinReached
                          THEN (IF removeButtonDisabled THEN "none" ELSE "")
                          ELSE @]
    IN emit(S2, Ev("buttonStatesUpdated", i, currentCount, 0, 0, Null))

----------------------------------------------------------------------------
(* Element locator *)

\* a lookup that ignores formId and searches the whole document
searchScope_Document(S, i) == 0

\* if (this.config.formId) { targetForm = ...; if (targetForm) searchScope = targetForm }
searchScope(S, i) ==
    IF S.config[i].formId \in FormIds THEN S.config[i].formId ELSE 0

\* searchScope.querySelector('[data-fields-container]'): the container of the
\* form, or the first one of the document
fieldsContainer(S, i) ==
    IF searchScope(S, i) # 0 THEN searchScope(S, i)
    ELSE CHOOSE f \in FormIds : \A g \in FormIds : f <= g

findSourceField(S, i) ==
    LET g == S.config[i].groupName
        sc == searchScope(S, i)
        any == First([k \in 1..Len(S.tree) |->
                        InScope(S.nodes[S.tree[k]], sc) /\ S.nodes[S.tree[k]].fg # NoAttr])
        specific == First([k \in 1..Len(S.tree) |->
                        /\ InScope(S.nodes[S.tree[k]], sc)
                        /\ S.nodes[S.tree[k]].fg # NoAttr /\ S.nodes[S.tree[k]].gn = g])
    IN IF g # "default" /\ specific # 0 THEN S.tree[specific]
       ELSE IF any # 0 THEN S.tree[any]
       ELSE Null

findButton(btns, scope, groupName) ==
    LET specific == First([k \in 1..Len(btns) |->
                        InScope(btns[k], scope) /\ btns[k].gn = groupName])
    IN IF groupName # "default" /\ specific # 0 THEN specific
       ELSE First([k \in 1..Len(btns) |-> InScope(btns[k], scope)])

findElements(S, i) ==
    [S EXCEPT !.elements[i] =
        [found |-> TRUE,
         searchScope |-> searchScope(S, i),
         sourceField |-> findSourceField(S, i),
         fieldsContainer |-> fieldsContainer(S, i),
         addButton |-> findButton(S.addBtns, searchScope(S, i), S.config[i].groupName),
         removeButton |-> findButton(S.removeBtns, searchScope(S, i),
                                     S.config[i].groupName)]]

validateSetup(S, i) ==
    S.elements[i].sourceField # Null /\ S.elements[i].addButton # Null

----------------------------------------------------------------------------
(* Field lifecycle controller *)

\* `${this.config.fieldPrefix}-${index}-${currentValue}`
Prefixed(index, currentValue) == <<index>> \o currentValue

\* currentValue.replace(`${fieldPrefix}-1-`, ''): the first occurrence goes
Unprefixed(currentValue) ==
    LET k == First([j \in 1..Len(currentValue) |-> currentValue[j] = 1])
    IN IF k = 0 THEN currentValue
       ELSE SubSeq(currentValue, 1, k - 1) \o SubSeq(currentValue, k + 1, Len(currentValue))

\* formElements.forEach(element => this.updateFieldElement(element, index)),
\* in document order: every name, id, for, data-name gets the prefix, and a
\* label then takes as `for` the id its input has at that moment
updateFieldElement(n, index) ==
    [n EXCEPT !.name = Prefixed(index, @),
              !.lfor = IF n.label = "before" THEN n.name
                       ELSE IF n.label = "after" THEN Prefixed(index, n.name)
                       ELSE @]

\* every name, id, for, data-name that includes `${fieldPrefix}-1-` loses it
resetFieldAttributes(n) ==
    [n EXCEPT !.name = Unprefixed(@), !.lfor = Unprefixed(@)]

\* input.value = '' on every input of the field
clearFieldValues(n) == [n EXCEPT !.val = FALSE]

\* a validation that accepts every field
validateExistingFields_None(S, i) == TRUE

validateExistingFields(S, i) ==
    \A k \in 1..Len(getOwnFieldGroups(S, i)) :
        LET n == S.nodes[getOwnFieldGroups(S, i)[k]] IN n.req => n.val

\* the element createNewField returns: a clone of the source carrying the index
createNewField(S, i, index) ==
    LET src == S.nodes[S.elements[i].sourceField]
        g == S.config[i].groupName
        newField == [src EXCEPT !.fg = index,
                                !.gn = IF g # "default" THEN g ELSE @,
                                !.hidden = FALSE, !.by = i,
                                !.form = S.elements[i].fieldsContainer]
    IN clearFieldValues(updateFieldElement(newField, index))

\* tree with element id placed right after position p
InsertAfter(tr, p, id) == SubSeq(tr, 1, p) \o <<id>> \o SubSeq(tr, p + 1, Len(tr))

\* container.appendChild(id): id becomes the last child of container c, which
\* in document order lies after the children of the containers before c
appendChild(S, c, id) ==
    LET before == {k \in 1..Len(S.tree) : S.nodes[S.tree[k]].form <= c}
        q == IF before = {} THEN 0 ELSE CHOOSE k \in before : \A j \in before : j <= k
    IN InsertAfter(S.tree, q, id)

\* the children of the fields containers after insertField placed element id
insertField(S, i, id) ==
    LET existingFields == getOwnFieldGroups(S, i)
        lastField == IF Len(existingFields) = 0 THEN Null
                     ELSE existingFields[Len(existingFields)]
        p == First([k \in 1..Len(S.tree) |-> S.tree[k] = lastField])
        nextSibling == /\ p < Len(S.tree)
                       /\ S.nodes[S.tree[p + 1]].form = S.nodes[lastField].form
    IN IF lastField # Null /\ nextSibling
       THEN InsertAfter(S.tree, p, id)
       ELSE appendChild(S, S.elements[i].fieldsContainer, id)

\* an index derived from the live count instead of the counter
NextIndex_FromCount(S, i) == getCurrentFieldCount(S, i) + 1

\* this.fieldCounter++
NextIndex(S, i) == S.fieldCounter[i] + 1

\* a refusal test that lets one field past the limit
AddRefused_Above(currentCount, maxFields) == currentCount > maxFields

AddRefused(currentCount, maxFields) == currentCount >= maxFields

addField(S, i, animate) ==
    IF ~S.elements[i].found THEN [S EXCEPT !.ret = "throw"]
    ELSE
    LET currentCount == getCurrentFieldCount(S, i)
        cfg == S.config[i]
    IN IF AddRefused(currentCount, cfg.maxFields)
       THEN [emit(S, Ev("maxFieldsReached", i, currentCount, cfg.maxFields, 0, Null))
                EXCEPT !.ret = "false"]
       ELSE IF cfg.validateOnAdd /\ ~validateExistingFields(S, i)
       THEN [emit(S, Ev("validationFailed", i, 0, 0, 0, Null)) EXCEPT !.ret = "false"]
       ELSE
       LET index == NextIndex(S, i)
           S1 == [S EXCEPT !.fieldCounter[i] = index]
       IN IF S.elements[i].sourceField = Null THEN [S1 EXCEPT !.ret = "throw"]
          ELSE
          LET id == Len(S.nodes) + 1
              S2 == [S1 EXCEPT !.nodes = Append(@, createNewField(S1, i, index)),
                               !.assigned[i] = @ \cup {<<id, index>>}]
              S3 == [S2 EXCEPT !.tree = insertField(S2, i, id)]
              newCount == getCurrentFieldCount(S3, i)
              S4 == updateButtonStates(S3, i)
          IN [emit(S4, Ev("fieldAdded", i, newCount, 0, S4.fieldCounter[i], id))
                 EXCEPT !.ret = "field"]

\* a detachment that reports the count taken before the element left
removeFieldElement_StaleCount(S, i, fieldElement) ==
    IF Attached(S, fieldElement)
    THEN LET beforeCount == getCurrentFieldCount(S, i)
             S1 == [S EXCEPT !.tree = SelectSeq(@, LAMBDA x : x # fieldElement)]
             S2 == updateButtonStates(S1, i)
         IN emit(S2, Ev("fieldRemoved", i, beforeCount, 0, 0, Null))
    ELSE S

removeFieldElement(S, i, fieldElement) ==
    IF Attached(S, fieldElement)
    THEN LET S1 == [S EXCEPT !.tree = SelectSeq(@, LAMBDA x : x # fieldElement)]
             afterCount == getCurrentFieldCount(S1, i)
             S2 == updateButtonStates(S1, i)
         IN emit(S2, Ev("fieldRemoved", i, afterCount, 0, 0, Null))
    ELSE S

animateFieldOut(S, i, fieldElement) ==
    [S EXCEPT !.timers = Append(@, [inst |-> i, node |-> fieldElement])]

\* a refusal test that lets one field below the limit
RemoveRefused_Below(currentCount, minFields) == currentCount < minFields

RemoveRefused(currentCount, minFields) == currentCount <= minFields

removeSpecificField(S, i, fieldElement) ==
    IF ~S.elements[i].found THEN [S EXCEPT !.ret = "throw"]
    ELSE
    LET currentCount == getCurrentFieldCount(S, i)
        cfg == S.config[i]
    IN IF RemoveRefused(currentCount, cfg.minFields)
       THEN [emit(S, Ev("minFieldsReached", i, currentCount, cfg.minFields, 0, Null))
                EXCEPT !.ret = "false"]
       ELSE IF cfg.animationSpeed > 0
       THEN [animateFieldOut(S, i, fieldElement) EXCEPT !.ret = "true"]
       ELSE [removeFieldElement(S, i, fieldElement) EXCEPT !.ret = "true"]

\* a selection that takes the first own field
lastField_First(fs) == fs[1]

\* fields[fields.length - 1]
lastField(fs) == fs[Len(fs)]

removeField(S, i) ==
    IF ~S.elements[i].found THEN [S EXCEPT !.ret = "throw"]
    ELSE
    LET fs == getOwnFieldGroups(S, i)
        currentCount == Len(fs)
        cfg == S.config[i]
    IN IF RemoveRefused(currentCount, cfg.minFields)
       THEN [emit(S, Ev("minFieldsReached", i, currentCount, cfg.minFields, 0, Null))
                EXCEPT !.ret = "false"]
       ELSE [removeSpecificField(S, i, lastField(fs)) EXCEPT !.ret = "true"]

----------------------------------------------------------------------------
(* Initialization *)

createHiddenSourceField(S, i) ==
    LET src == S.nodes[S.elements[i].sourceField]
        newSourceField == [src EXCEPT !.fg = NoAttr, !.gn = "", !.hidden = TRUE,
                                      !.by = 0,
                                      !.form = S.elements[i].fieldsContainer]
    IN resetFieldAttributes(clearFieldValues(newSourceField))

convertSourceToWorkingField(S, i) ==
    LET s == S.elements[i].sourceField
        g == S.config[i].groupName
        S1 == [S EXCEPT !.nodes[s] = updateFieldElement(
                                        [@ EXCEPT !.fg = 1,
                                                  !.gn = IF g # "default" THEN g ELSE @],
                                        1),
                        !.fieldCounter[i] = 1,
                        !.assigned[i] = @ \cup {<<s, 1>>}]
        id == Len(S.nodes) + 1
    IN [S1 EXCEPT !.nodes = Append(@, createHiddenSourceField(S1, i)),
                  !.tree = appendChild(S1, S1.elements[i].fieldsContainer, id),
                  !.elements[i].sourceField = id]

hideSourceField(S, i) == [S EXCEPT !.nodes[S.elements[i].sourceField].hidden = TRUE]

RECURSIVE createMinimumFields(_, _, _)
\* the remaining k iterations of the loop
createMinimumFields(S, i, k) ==
    IF k <= 0 THEN S ELSE createMinimumFields(addField(S, i, FALSE), i, k - 1)

setupInitialState(S, i) ==
    LET found == getCurrentFieldCount(S, i)
        rb == S.elements[i].removeButton
        S1 == [S EXCEPT !.fieldCounter[i] = found]
        S2 == IF rb # Null /\ S.config[i].hideRemoveButtonWhenMinReached
                 /\ found <= S.config[i].minFields
              THEN [S1 EXCEPT !.removeBtns[rb].display = "none"]
              ELSE S1
    IN IF found = 1 THEN convertSourceToWorkingField(S2, i)
       ELSE IF found = 0
            THEN createMinimumFields(hideSourceField(S2, i), i, S.config[i].minFields)
            ELSE hideSourceField(S2, i)

bindEvents(S, i) ==
    LET a == S.elements[i].addButton
        rb == S.elements[i].removeButton
    IN IF S.addBtns[a].bound THEN S
       ELSE LET S1 == [S EXCEPT !.addBtns[a].listeners = Append(@, i),
                                !.addBtns[a].bound = TRUE]
                S2 == IF rb # Null /\ ~S1.removeBtns[rb].bound
                      THEN [S1 EXCEPT !.removeBtns[rb].listeners = Append(@, i),
                                      !.removeBtns[rb].bound = TRUE]
                      ELSE S1
            IN [S2 EXCEPT !.rowListeners = Append(@, i)]

\* an init() without the isInitialized test
init_Again(S, i) ==
    LET S1 == findElements(S, i)
    IN IF validateSetup(S1, i)
       THEN LET S2 == setupInitialState(S1, i)
                S3 == bindEvents(S2, i)
                S4 == updateButtonStates(S3, i)
                S5 == [S4 EXCEPT !.isInitialized[i] = TRUE]
            IN [emit(S5, Ev("initialized", i, 0, 0, 0, Null)) EXCEPT !.ret = "self"]
       ELSE [S1 EXCEPT !.ret = "self"]

init(S, i) ==
    IF S.isInitialized[i] THEN [S EXCEPT !.ret = "self"]
    ELSE LET S1 == findElements(S, i)
         IN IF validateSetup(S1, i)
            THEN LET S2 == setupInitialState(S1, i)
                     S3 == bindEvents(S2, i)
                     S4 == updateButtonStates(S3, i)
                     S5 == [S4 EXCEPT !.isInitialized[i] = TRUE]
                 IN [emit(S5, Ev("initialized", i, 0, 0, 0, Null)) EXCEPT !.ret = "self"]
            ELSE [S1 EXCEPT !.ret = "self"]

----------------------------------------------------------------------------
(* Configuration and teardown *)

\* { ...this.config, ...newConfig }
Merge(cfg, newConfig) ==
    [k \in DOMAIN cfg \cup DOMAIN newConfig |->
        IF k \in DOMAIN newConfig THEN newConfig[k] ELSE cfg[k]]

\* `this.config = object`: an object handed out that was this.config keeps
\* what it held and is this.config no longer
Assign(S, i, object) ==
    [S EXCEPT !.config[i] = object,
              !.held = [k \in DOMAIN @ |->
                          IF @[k].inst = i /\ @[k].same
                          THEN [@[k] EXCEPT !.same = FALSE, !.object = S.config[i]]
                          ELSE @[k]]]

\* `{ ...this.config }`: a new object with the same keys and values; held
\* lists the objects callers were handed, `same` telling whether the object
\* is this.config itself
getConfig(S, i) ==
    [S EXCEPT !.held = Append(@, [inst |-> i, same |-> FALSE,
                                  object |-> Merge(<<>>, S.config[i])]),
              !.ret = "object"]

\* an update that leaves the controls as they were
updateConfig_NoRefresh(S, i, newConfig) ==
    LET S1 == Assign(S, i, Merge(S.config[i], newConfig))
    IN IF ~S.elements[i].found THEN [S1 EXCEPT !.ret = "throw"]
       ELSE [S1 EXCEPT !.ret = "self"]

updateConfig(S, i, newConfig) ==
    LET S1 == Assign(S, i, Merge(S.config[i], newConfig))
    IN IF ~S.elements[i].found THEN [S1 EXCEPT !.ret = "throw"]
       ELSE [updateButtonStates(S1, i) EXCEPT !.ret = "self"]

\* a teardown that keeps this.events
destroy_KeepsEvents(S, i) ==
    LET a == S.elements[i].addButton
        rb == S.elements[i].removeButton
        S1 == IF a # Null THEN [S EXCEPT !.addBtns[a].bound = FALSE] ELSE S
        S2 == IF rb # Null THEN [S1 EXCEPT !.removeBtns[rb].bound = FALSE] ELSE S1
        S3 == [S2 EXCEPT !.isInitialized[i] = FALSE]
    IN [emit(S3, Ev("destroyed", i, 0, 0, 0, Null)) EXCEPT !.ret = "self"]

destroy(S, i) ==
    LET a == S.elements[i].addButton
        rb == S.elements[i].removeButton
        S1 == IF a # Null THEN [S EXCEPT !.addBtns[a].bound = FALSE] ELSE S
        S2 == IF rb # Null THEN [S1 EXCEPT !.removeBtns[rb].bound = FALSE] ELSE S1
        S3 == [S2 EXCEPT !.events[i] = NoEvents, !.isInitialized[i] = FALSE]
    IN [emit(S3, Ev("destroyed", i, 0, 0, 0, Null)) EXCEPT !.ret = "self"]

----------------------------------------------------------------------------
(* Pages and configurations the instances are constructed on *)

Page(ns, adds, rms) == [nodes |-> ns, addBtns |-> adds, removeBtns |-> rms]

\* one authored template, as in the "Single Group Example" markup
SoleTemplate(gn) == <<Node(Blank, gn, FALSE, 0)>>

\* two field groups already rendered in the authored markup
TwoAuthored == <<Node(Blank, "", FALSE, 0), Node(Blank, "", FALSE, 0)>>

\* the defaults written in the constructor
Defaults ==
    [maxFields |-> 5, minFields |-> 1, fieldPrefix |-> "field",
     animationSpeed |-> 300, validateOnAdd |-> FALSE, groupName |-> "default",
     formId |-> Null, hideRemoveButtonWhenMinReached |-> TRUE]

\* options.key || default: a missing or falsy value gives the default
OrDefault(options, key, falsy) ==
    IF key \in DOMAIN options /\ options[key] # falsy THEN options[key]
    ELSE Defaults[key]

\* options.key !== undefined ? options.key : default
IfDefined(options, key) ==
    IF key \in DOMAIN options THEN options[key] ELSE Defaults[key]

\* this.config as the constructor builds it from the options object: the
\* listed keys first, then ...options over them
constructor(options) ==
    Merge([maxFields |-> OrDefault(options, "maxFields", 0),
           minFields |-> OrDefault(options, "minFields", 0),
           fieldPrefix |-> OrDefault(options, "fieldPrefix", ""),
           animationSpeed |-> OrDefault(options, "animationSpeed", 0),
           validateOnAdd |-> IfDefined(options, "validateOnAdd"),
           groupName |-> OrDefault(options, "groupName", ""),
           formId |-> OrDefault(options, "formId", 0),
           hideRemoveButtonWhenMinReached |->
               IfDefined(options, "hideRemoveButtonWhenMinReached")],
          options)

Options(minF, maxF, g, speed, hide) ==
    [minFields |-> minF, maxFields |-> maxF, groupName |-> g, formId |-> 0,
     animationSpeed |-> speed, validateOnAdd |-> FALSE,
     hideRemoveButtonWhenMinReached |-> hide]

NoElements == [found |-> FALSE, searchScope |-> 0, sourceField |-> Null,
               fieldsContainer |-> 0, addButton |-> Null, removeButton |-> Null]

\* the state right after `new DynamicFields({...options, autoInit: false})`
\* for every instance of cfgs on the page
Constructed(page, cfgs) ==
    [nodes |-> page.nodes, tree |-> [k \in 1..Len(page.nodes) |-> k],
     addBtns |-> page.addBtns, removeBtns |-> page.removeBtns,
     rowListeners |-> <<>>,
     config |-> cfgs,
     fieldCounter |-> [i \in DOMAIN cfgs |-> 0],
     isInitialized |-> [i \in DOMAIN cfgs |-> FALSE],
     elements |-> [i \in DOMAIN cfgs |-> NoElements],
     timers |-> <<>>, log |-> <<>>, ret |-> "none",
     assigned |-> [i \in DOMAIN cfgs |-> {}],
     events |-> [i \in DOMAIN cfgs |-> NoEvents], calls |-> <<>>,
     held |-> <<>>]

RECURSIVE InitAll(_, _)
\* the constructors with autoInit left on, run in the order of creation
InitAll(S, k) ==
    IF k \notin DOMAIN S.config THEN S ELSE InitAll(init(S, k), k + 1)

Starts(S, op) ==
    /\ nodes = S.nodes /\ tree = S.tree
    /\ addBtns = S.addBtns /\ removeBtns = S.removeBtns
    /\ rowListeners = S.rowListeners
    /\ config = S.config /\ fieldCounter = S.fieldCounter
    /\ isInitialized = S.isInitialized /\ elements = S.elements
    /\ timers = S.timers /\ log = S.log /\ assigned = S.assigned
    /\ events = S.events /\ calls = S.calls /\ held = S.held
    /\ lastOp = [op |-> op, inst |-> 0, arg |-> 0, ret |-> S.ret]

Bounded(S) ==
    /\ Len(S.nodes) <= MaxNodes
    /\ Len(S.timers) <= MaxTimers
    /\ Len(S.rowListeners) <= MaxListeners
    /\ \A i \in DOMAIN S.config : S.fieldCounter[i] <= MaxNodes
    /\ \A i \in DOMAIN S.config :
          Registered(S.events[i], DOMAIN S.events[i]) <= MaxSubs
    /\ Len(S.held) <= MaxHeld

Becomes(S, op, i, arg) ==
    /\ Bounded(S)
    /\ nodes' = S.nodes /\ tree' = S.tree
    /\ addBtns' = S.addBtns /\ removeBtns' = S.removeBtns
    /\ rowListeners' = S.rowListeners
    /\ config' = S.config /\ fieldCounter' = S.fieldCounter
    /\ isInitialized' = S.isInitialized /\ elements' = S.elements
    /\ timers' = S.timers /\ log' = S.log /\ assigned' = S.assigned
    /\ events' = S.events /\ calls' = S.calls /\ held' = S.held
    /\ lastOp' = [op |-> op, inst |-> i, arg |-> arg, ret |-> S.ret]

Inst == DOMAIN config

\* the elements a caller can hand to removeSpecificField: attached field groups
FieldGroups == {tree[k] : k \in {j \in 1..Len(tree) : nodes[tree[j]].fg # NoAttr}}

OwnFields(i) == {getOwnFieldGroups(Cur, i)[k] : k \in 1..getCurrentFieldCount(Cur, i)}

----------------------------------------------------------------------------
(* Actions: one per public operation, one for the deferred detachment *)

DoInit(i) == Becomes(init(Cur, i), "init", i, 0)

DoAddField(i) == Becomes(addField(Cur, i, TRUE), "addField", i, 0)

DoRemoveField(i) == Becomes(removeField(Cur, i), "removeField", i, 0)

DoRemoveSpecificField(i, t) ==
    Becomes(removeSpecificField(Cur, i, t), "removeSpecificField", i, t)

\* a timer whose callback does not run removeFieldElement
TimerFires_Drops ==
    /\ timers # <<>>
    /\ Becomes([Cur EXCEPT !.timers = Tail(@)],
               "timer", Head(timers).inst, Head(timers).node)

\* the setTimeout callback of animateFieldOut; equal delays fire in order
TimerFires ==
    /\ timers # <<>>
    /\ LET S == [Cur EXCEPT !.timers = Tail(@)]
       IN Becomes(removeFieldElement(S, Head(timers).inst, Head(timers).node),
                  "timer", Head(timers).inst, Head(timers).node)

DoUpdateConfig(i, newConfig) ==
    Becomes(updateConfig(Cur, i, newConfig), "updateConfig", i, 0)

DoGetConfig(i) == Becomes(getConfig(Cur, i), "getConfig", i, 0)

\* arg records how many callbacks were registered when destroy() was called
DoDestroy(i) ==
    Becomes(destroy(Cur, i), "destroy", i, Registered(events[i], DOMAIN events[i]))

DoOn(i, eventName, callback) ==
    Becomes(on(Cur, i, eventName, callback), "on", i,
            [name |-> eventName, callback |-> callback])

DoOff(i, eventName, callback) ==
    Becomes(off(Cur, i, eventName, callback), "off", i,
            [name |-> eventName, callback |-> callback])

DoOffAll(i, eventName) ==
    Becomes(offAll(Cur, i, eventName), "offAll", i, [name |-> eventName])

DoEmit(i, eventName) ==
    Becomes(publicEmit(Cur, i, eventName), "emit", i, [name |-> eventName])

\* the callbacks handed to on / off: one that returns, one that raises
Callbacks == {Callback(1, FALSE), Callback(2, TRUE)}

RECURSIVE addListeners(_, _)
\* the click listeners of an add control, run in the order they were added
addListeners(S, ls) ==
    IF ls = <<>> THEN S ELSE addListeners(addField(S, Head(ls), TRUE), Tail(ls))

RECURSIVE removeListeners(_, _)
\* the click listeners of a remove control
removeListeners(S, ls) ==
    IF ls = <<>> THEN S ELSE removeListeners(removeField(S, Head(ls)), Tail(ls))

RECURSIVE rowListenersRun(_, _, _)
\* the click listeners of the fields container, for a click on the
\* [data-remove-this-field] control inside field group t
rowListenersRun(S, ls, t) ==
    IF ls = <<>> THEN S
    ELSE LET i == Head(ls)
             n == S.nodes[t]
             S1 == IF n.form = S.elements[i].fieldsContainer
                      /\ (n.gn = "" \/ n.gn = S.config[i].groupName)
                   THEN removeSpecificField(S, i, t)
                   ELSE S
         IN rowListenersRun(S1, Tail(ls), t)

\* a user click on an add control; a disabled control dispatches no click
ClickAdd(b) ==
    /\ ~addBtns[b].disabled
    /\ Becomes(addListeners(Cur, addBtns[b].listeners), "clickAdd", 0, b)

ClickRemove(b) ==
    /\ ~removeBtns[b].disabled /\ removeBtns[b].display # "none"
    /\ Becomes(removeListeners(Cur, removeBtns[b].listeners), "clickRemove", 0, b)

ClickRow(t) ==
    Becomes(rowListenersRun(Cur, rowListeners, t), "clickRow", 0, t)

\* the partial configurations handed to updateConfig
Partials == {[minFields |-> 1], [maxFields |-> 2]}

Next ==
    \/ \E i \in Inst : DoInit(i)
    \/ \E i \in Inst : DoAddField(i)
    \/ \E i \in Inst : DoRemoveField(i)
    \/ \E i \in Inst : \E t \in FieldGroups : DoRemoveSpecificField(i, t)
    \/ TimerFires
    \/ \E i \in Inst : \E p \in Partials : DoUpdateConfig(i, p)

\* the same with destroy(), after which init() may run again
NextLife ==
    \/ \E i \in Inst : DoInit(i)
    \/ \E i \in Inst : DoAddField(i)
    \/ \E i \in Inst : DoRemoveField(i)
    \/ \E i \in Inst : \E t \in FieldGroups : DoRemoveSpecificField(i, t)
    \/ TimerFires
    \/ \E i \in Inst : \E p \in Partials : DoUpdateConfig(i, p)
    \/ \E i \in Inst : DoDestroy(i)

----------------------------------------------------------------------------
(* One instance, constructed with autoInit off, every public operation *)

\* <<minFields, maxFields>>; the last pair is the inconsistent configuration
BoundPairs == {<<0, 1>>, <<1, 2>>, <<1, 3>>, <<2, 3>>, <<2, 1>>}

OneOptions ==
    { Options(b[1], b[2], g, sp, TRUE) :
        b \in BoundPairs, g \in {"default", "edu"}, sp \in {0, 300} }

\* <<page, groupName>>: the documented markup for a default and for a named
\* instance, a default instance on a page whose only template is tagged, a
\* page with two field groups already rendered, a page without a template
OneSetups ==
    { <<Page(SoleTemplate(""), <<Button("")>>, <<Button("")>>), "default">>,
      <<Page(SoleTemplate("edu"), <<Button("edu")>>, <<Button("edu")>>), "edu">>,
      <<Page(SoleTemplate("edu"), <<Button("edu")>>, <<Button("edu")>>), "default">>,
      <<Page(TwoAuthored, <<Button("")>>, <<Button("")>>), "default">>,
      <<Page(<<>>, <<Button("")>>, <<Button("")>>), "default">> }

Init ==
    \E su \in OneSetups : \E o \in {x \in OneOptions : x.groupName = su[2]} :
        Starts(Constructed(su[1], (1 :> o)), "new")

Spec == Init /\ [][Next]_vars

\* the documented markup for a default and for a named instance
LifeSetups ==
    { <<Page(SoleTemplate(""), <<Button("")>>, <<Button("")>>), "default">>,
      <<Page(SoleTemplate("edu"), <<Button("edu")>>, <<Button("edu")>>), "edu">> }

InitLife ==
    \E su \in LifeSetups : \E o \in {x \in OneOptions : x.groupName = su[2]} :
        Starts(Constructed(su[1], (1 :> o)), "new")

SpecLife == InitLife /\ [][NextLife]_vars

----------------------------------------------------------------------------
(* One instance constructed with autoInit on (the default), then driven    *)
(* through addField, removeField, removeSpecificField on its own fields    *)
(* and the deferred detachments                                            *)

NextActive ==
    \/ \E i \in Inst : DoAddField(i)
    \/ \E i \in Inst : DoRemoveField(i)
    \/ \E i \in Inst : \E t \in OwnFields(i) : DoRemoveSpecificField(i, t)
    \/ TimerFires

\* documented markup: one template per group, controls for the group
ActivePages ==
    { Page(SoleTemplate(""), <<Button("")>>, <<Button("")>>),
      Page(SoleTemplate("edu"), <<Button("edu")>>, <<Button("edu")>>),
      Page(SoleTemplate(""), <<Button("")>>, <<>>),
      Page(SoleTemplate("work"), <<Button("work")>>, <<Button("work")>>) }

\* an instance whose clones are its own: a default instance on an untagged
\* template, or a named instance on any template
OwnsClones(page, o) == o.groupName = "default" => page.nodes[1].gn = ""

ActiveStarts ==
    { InitAll(Constructed(po[1], (1 :> po[2])), 1) :
        po \in {x \in ActivePages \X OneOptions : OwnsClones(x[1], x[2])} }

InitActive == \E S \in ActiveStarts : Starts(S, "new")

SpecActive == InitActive /\ [][NextActive]_vars

WithinBounds(S, i) ==
    /\ S.config[i].minFields <= getCurrentFieldCount(S, i)
    /\ getCurrentFieldCount(S, i) <= S.config[i].maxFields

ValidBounds(cfg) == 0 <= cfg.minFields /\ cfg.minFields <= cfg.maxFields

InitBounded ==
    \E S \in ActiveStarts :
        /\ S.isInitialized[1] /\ ValidBounds(S.config[1]) /\ WithinBounds(S, 1)
        /\ Starts(S, "new")

SpecBounded == InitBounded /\ [][NextActive]_vars

----------------------------------------------------------------------------
(* Properties *)

Count(i) == getCurrentFieldCount(Cur, i)

\* C1: an instance that starts within valid bounds keeps
\* minFields <= getFieldCount() <= maxFields through every addField,
\* removeField, removeSpecificField on its own fields and deferred detachment
C1_CountStaysWithinBounds == \A i \in Inst : WithinBounds(Cur, i)

\* C2: with valid bounds, once init() has completed on a page where the
\* template and the add control resolve, minFields <= getFieldCount() <= maxFields
C2_InitEstablishesBounds ==
    \A i \in Inst :
        (lastOp.op = "init" /\ lastOp.inst = i /\ isInitialized[i]
            /\ ValidBounds(config[i]))
        => WithinBounds(Cur, i)

\* C3: addField() called while getFieldCount() >= maxFields returns false,
\* emits maxFieldsReached exactly once with the count and the limit, and
\* leaves the elements, their order, indices and attributes unchanged
C3_AddRefusedAtMax ==
    [][\A i \in Inst :
        (lastOp'.op = "addField" /\ lastOp'.inst = i /\ elements[i].found
            /\ Count(i) >= config[i].maxFields)
        => /\ lastOp'.ret = "false"
           /\ log' = <<Ev("maxFieldsReached", i, Count(i), config[i].maxFields, 0, Null)>>
           /\ nodes' = nodes /\ tree' = tree
           /\ fieldCounter' = fieldCounter]_vars

\* an initialized instance holding two fields was refused a third
C3_Witness ==
    /\ lastOp.op = "addField" /\ lastOp.ret = "false"
    /\ isInitialized[lastOp.inst]
    /\ Len(log) = 1 /\ log[1].type = "maxFieldsReached"
    /\ log[1].count = 2 /\ log[1].limit = 2

\* C4: removeField() and removeSpecificField(target) called while
\* getFieldCount() <= minFields return false, emit minFieldsReached,
\* schedule no detachment and leave the tree unchanged
C4_RemoveRefusedAtMin ==
    [][\A i \in Inst :
        (lastOp'.op \in {"removeField", "removeSpecificField"} /\ lastOp'.inst = i
            /\ elements[i].found /\ Count(i) <= config[i].minFields)
        => /\ lastOp'.ret = "false"
           /\ log' = <<Ev("minFieldsReached", i, Count(i), config[i].minFields, 0, Null)>>
           /\ timers' = timers
           /\ nodes' = nodes /\ tree' = tree]_vars

\* an animated instance at its minimum of one field refused a direct removal
C4_Witness ==
    /\ lastOp.op = "removeSpecificField" /\ lastOp.ret = "false"
    /\ isInitialized[lastOp.inst]
    /\ config[lastOp.inst].animationSpeed > 0
    /\ Attached(Cur, lastOp.arg)
    /\ Len(log) = 1 /\ log[1].type = "minFieldsReached"
    /\ log[1].count = 1 /\ log[1].limit = 1

\* the emit() calls of the given type in a log
Emitted(lg, type) == SelectSeq(lg, LAMBDA e : e.type = type)

RunConfig(i) == config[i].minFields = 1 /\ config[i].maxFields = 3

\* C5: with minFields=1 and maxFields=3 on a page with a sole template, each
\* removal completing before the next call: addField at count 1 and 2 gives
\* counts 2 and 3 with one fieldAdded carrying the new total; addField at
\* count 3 is refused with maxFieldsReached{maxFields: 3}; removeField at
\* count 3 and 2 gives 2 and 1 with one fieldRemoved each; removeField at
\* count 1 is refused with minFieldsReached{minFields: 1}
C5_ConcreteRun ==
    [][\A i \in Inst : (RunConfig(i) /\ lastOp'.inst = i) =>
        /\ (lastOp'.op = "addField" /\ Count(i) \in {1, 2})
           => /\ lastOp'.ret = "field"
              /\ Count(i)' = Count(i) + 1
              /\ Len(Emitted(log', "fieldAdded")) = 1
              /\ Emitted(log', "fieldAdded")[1].count = Count(i) + 1
        /\ (lastOp'.op = "addField" /\ Count(i) = 3)
           => /\ lastOp'.ret = "false"
              /\ log' = <<Ev("maxFieldsReached", i, 3, 3, 0, Null)>>
              /\ Count(i)' = 3
        /\ (lastOp'.op = "removeField" /\ timers = <<>> /\ Count(i) \in {2, 3})
           => /\ lastOp'.ret = "true"
              /\ IF config[i].animationSpeed = 0
                 THEN /\ Count(i)' = Count(i) - 1
                      /\ Len(Emitted(log', "fieldRemoved")) = 1
                      /\ Emitted(log', "fieldRemoved")[1].count = Count(i) - 1
                 ELSE /\ Len(timers') = 1 /\ Count(i)' = Count(i)
                      /\ Emitted(log', "fieldRemoved") = <<>>
        /\ (lastOp'.op = "timer" /\ lastOp.op = "removeField" /\ lastOp.ret = "true"
               /\ Len(timers) = 1 /\ Count(i) \in {2, 3})
           => /\ Count(i)' = Count(i) - 1
              /\ Len(Emitted(log', "fieldRemoved")) = 1
              /\ Emitted(log', "fieldRemoved")[1].count = Count(i) - 1
        /\ (lastOp'.op = "removeField" /\ Count(i) = 1)
           => /\ lastOp'.ret = "false"
              /\ log' = <<Ev("minFieldsReached", i, 1, 1, 0, Null)>>
              /\ Count(i)' = 1]_vars

\* the end of the run: fields #2 and #3 were created and removed again, and
\* the last removeField was refused at one field
C5_Witness ==
    /\ RunConfig(1) /\ fieldCounter[1] = 3 /\ timers = <<>>
    /\ Count(1) = 1 /\ nodes[getOwnFieldGroups(Cur, 1)[1]].fg = 1
    /\ lastOp.op = "removeField" /\ lastOp.ret = "false"
    /\ log = <<Ev("minFieldsReached", 1, 1, 1, 0, Null)>>

Max(set) == CHOOSE m \in set : \A x \in set : x <= m

\* the highest index instance i ever wrote into a data-field-group attribute
HighestAssigned(i) == Max({p[2] : p \in assigned[i]} \cup {0})

LiveIndices(i) == {nodes[id].fg : id \in OwnFields(i)}

\* C6: across addField, removeField and removeSpecificField on an initialized
\* instance no element's index changes, a new field's index is one above the
\* highest index ever assigned, and no two live fields share an index
C6_IndexStability ==
    [][/\ \A id \in 1..Len(nodes) : nodes'[id].fg = nodes[id].fg
       /\ \A i \in Inst :
            (lastOp'.op = "addField" /\ lastOp'.inst = i /\ lastOp'.ret = "field")
            => /\ Len(nodes') = Len(nodes) + 1
               /\ nodes'[Len(nodes')].fg = HighestAssigned(i) + 1
       /\ \A i \in Inst : \A a, b \in OwnFields(i)' :
            a # b => nodes'[a].fg # nodes'[b].fg]_vars

\* fields #1..#3 were created, #2 was removed by reference, the next one is #4
C6_Witness ==
    /\ lastOp.op = "addField" /\ lastOp.ret = "field"
    /\ LiveIndices(1) = {1, 3, 4}

\* C7: the counter of fields ever created never decreases across init,
\* addField, the removals, updateConfig, destroy and a later init
C7_CounterMonotonic ==
    [][\A i \in Inst : fieldCounter'[i] >= fieldCounter[i]]_vars

RECURSIVE Drain(_)
\* every pending deferred detachment fired, in order
Drain(S) ==
    IF S.timers = <<>> THEN S
    ELSE Drain(removeFieldElement([S EXCEPT !.timers = Tail(@)],
                                  Head(S.timers).inst, Head(S.timers).node))

\* addField() immediately followed by removeField(), detachment completed
AddThenRemove(S, i) == Drain(removeField(addField(S, i, TRUE), i))

RoundTripRestores(S, i) ==
    LET R == AddThenRemove(S, i)
    IN addField(S, i, TRUE).ret = "field"
       => /\ ~Attached(R, Len(S.nodes) + 1)
          /\ R.tree = S.tree
          /\ getCurrentFieldCount(R, i) = getCurrentFieldCount(S, i)

CanAdd(i) ==
    /\ isInitialized[i]
    /\ config[i].minFields <= Count(i) /\ Count(i) < config[i].maxFields

----------------------------------------------------------------------------
(* Two instances with distinct group names on the same form *)

NextTwo ==
    \/ \E i \in Inst : DoInit(i)
    \/ \E i \in Inst : DoAddField(i)
    \/ \E i \in Inst : DoRemoveField(i)
    \/ \E i \in Inst : \E t \in OwnFields(i) : DoRemoveSpecificField(i, t)
    \/ TimerFires
    \/ \E i \in Inst : \E p \in Partials : DoUpdateConfig(i, p)

\* <<page, first group name, second group name>>: both groups tagged
\* throughout; the education group without a remove control of its own; an
\* untagged group next to a tagged one
TwoSetups ==
    { <<Page(<<Node(Blank, "edu", FALSE, 0), Node(Blank, "work", FALSE, 0)>>,
             <<Button("edu"), Button("work")>>,
             <<Button("edu"), Button("work")>>), "edu", "work">>,
      <<Page(<<Node(Blank, "edu", FALSE, 0), Node(Blank, "work", FALSE, 0)>>,
             <<Button("edu"), Button("work")>>,
             <<Button("work")>>), "edu", "work">>,
      <<Page(<<Node(Blank, "", FALSE, 0), Node(Blank, "edu", FALSE, 0)>>,
             <<Button(""), Button("edu")>>,
             <<Button(""), Button("edu")>>), "default", "edu">> }

InitTwo ==
    \E su \in TwoSetups : \E sp \in {0, 300} :
        Starts(Constructed(su[1], (1 :> Options(1, 2, su[2], sp, TRUE))
                                  @@ (2 :> Options(1, 2, su[3], sp, TRUE))), "new")

SpecTwo == InitTwo /\ [][NextTwo]_vars

\* C9: of two instances with distinct group names on one form (one of them
\* possibly the default group), neither counts a field created by the other
C9_CountIsolation ==
    \A i, j \in Inst :
        (i # j /\ isInitialized[i] /\ isInitialized[j])
        => \A f \in OwnFields(i) : nodes[f].by # j

\* C10: no init, addField, removeField, removeSpecificField or updateConfig
\* of one instance changes the disabled or hidden state of the add or
\* remove control of the other instance
C10_ControlIsolation ==
    [][\A i, j \in Inst :
        (i # j /\ lastOp'.inst = i /\ elements[j].found
            /\ lastOp'.op \in {"init", "addField", "removeField",
                               "removeSpecificField", "updateConfig"})
        => /\ elements[j].addButton # Null
              => /\ addBtns'[elements[j].addButton].disabled
                        = addBtns[elements[j].addButton].disabled
                 /\ addBtns'[elements[j].addButton].display
                        = addBtns[elements[j].addButton].display
           /\ elements[j].removeButton # Null
              => /\ removeBtns'[elements[j].removeButton].disabled
                        = removeBtns[elements[j].removeButton].disabled
                 /\ removeBtns'[elements[j].removeButton].display
                        = removeBtns[elements[j].removeButton].display]_vars

----------------------------------------------------------------------------
(* Two instances with the same group name, each on a form of its own *)

\* <<page, group name>>: the same template and controls authored in form 1
\* and in form 2, tagged for a group or untagged
FormSetups ==
    { <<Page(<<InForm(Node(Blank, g, FALSE, 0), 1), InForm(Node(Blank, g, FALSE, 0), 2)>>,
             <<InForm(Button(g), 1), InForm(Button(g), 2)>>,
             <<InForm(Button(g), 1), InForm(Button(g), 2)>>),
        IF g = "" THEN "default" ELSE g>> : g \in {"", "edu"} }

InitForms ==
    \E su \in FormSetups : \E sp \in {0, 300} :
        Starts(Constructed(su[1],
                 (1 :> [Options(1, 2, su[2], sp, TRUE) EXCEPT !.formId = 1])
                 @@ (2 :> [Options(1, 2, su[2], sp, TRUE) EXCEPT !.formId = 2])), "new")

SpecForms == InitForms /\ [][NextTwo]_vars

\* the field groups and the template inside form f, in document order
FormFields(S, f) == SelectSeq(S.tree, LAMBDA id : S.nodes[id].form = f)

\* disabled and hidden state of the controls inside form f
FormControls(S, f) ==
    <<[k \in {b \in 1..Len(S.addBtns) : S.addBtns[b].form = f} |->
          <<S.addBtns[k].disabled, S.addBtns[k].display>>],
      [k \in {b \in 1..Len(S.removeBtns) : S.removeBtns[b].form = f} |->
          <<S.removeBtns[k].disabled, S.removeBtns[k].display>>]>>

\* C11: of two instances with the same group name whose formId values resolve
\* to distinct forms, no operation or deferred detachment of one changes the
\* other form's fields, their indices and attributes, the other's count and
\* counter, or the state of the other form's controls
C11_FormIsolation ==
    [][\A i, j \in Inst :
        (i # j /\ lastOp'.inst = i)
        => LET f == config[j].formId
           IN /\ FormFields(Cur, f)' = FormFields(Cur, f)
              /\ \A id \in 1..Len(nodes) : nodes[id].form = f => nodes'[id] = nodes[id]
              /\ \A id \in 1..Len(nodes') : nodes'[id].form = f => id <= Len(nodes)
              /\ Count(j)' = Count(j)
              /\ fieldCounter'[j] = fieldCounter[j]
              /\ FormControls(Cur, f)' = FormControls(Cur, f)]_vars

\* both instances are initialized, each form holds a field #1 of its own, and
\* the second form's instance has just added its #2 there
C11_Witness ==
    /\ lastOp.op = "addField" /\ lastOp.inst = 2 /\ lastOp.ret = "field"
    /\ LiveIndices(1) = {1} /\ LiveIndices(2) = {1, 2}
    /\ \A i \in Inst :
          /\ isInitialized[i]
          /\ \A id \in OwnFields(i) : nodes[id].form = config[i].formId

----------------------------------------------------------------------------
(* Control state *)

\* the controls of instance i agree with its current count
InSync(S, i) ==
    LET a == S.elements[i].addButton
        rb == S.elements[i].removeButton
        n == getCurrentFieldCount(S, i)
    IN /\ S.addBtns[a].disabled <=> (n >= S.config[i].maxFields)
       /\ rb # Null =>
            /\ S.removeBtns[rb].disabled <=> (n <= S.config[i].minFields)
            /\ S.config[i].hideRemoveButtonWhenMinReached
               => (S.removeBtns[rb].display = "none" <=> (n <= S.config[i].minFields))

\* C12: after every completed init, successful addField, completed
\* detachment and updateConfig of an initialized instance, the add control
\* is disabled iff count >= maxFields, the remove control is disabled iff
\* count <= minFields and, when hideRemoveButtonWhenMinReached is set, hidden
\* iff count <= minFields, all for the count of the state reached
C12_ControlsInSync ==
    [][\A i \in Inst :
        (/\ lastOp'.inst = i /\ isInitialized'[i]
         /\ \/ lastOp'.op = "init"
            \/ lastOp'.op = "addField" /\ lastOp'.ret = "field"
            \/ lastOp'.op \in {"timer", "removeField", "removeSpecificField"}
                 /\ tree' # tree
            \/ lastOp'.op = "updateConfig")
        => InSync(Cur, i)']_vars

\* a deferred detachment brought an instance holding both controls down to
\* its minimum: the remove control is disabled and hidden, the add control is
\* enabled
C12_Witness ==
    /\ lastOp.op = "timer" /\ isInitialized[lastOp.inst]
    /\ Len(Emitted(log, "fieldRemoved")) = 1
    /\ Count(lastOp.inst) = config[lastOp.inst].minFields
    /\ Count(lastOp.inst) < config[lastOp.inst].maxFields
    /\ elements[lastOp.inst].removeButton # Null
    /\ removeBtns[elements[lastOp.inst].removeButton].disabled
    /\ removeBtns[elements[lastOp.inst].removeButton].display = "none"
    /\ ~addBtns[elements[lastOp.inst].addButton].disabled

----------------------------------------------------------------------------
(* Removal by direct reference, the caller handing over any field group *)

NextAny ==
    \/ \E i \in Inst : DoInit(i)
    \/ \E i \in Inst : DoAddField(i)
    \/ \E i \in Inst : \E t \in FieldGroups : DoRemoveSpecificField(i, t)
    \/ TimerFires

SpecAny == InitTwo /\ [][NextAny]_vars

\* the ownership rule: the group-name tag is absent or names the instance's group
BelongsTo(n, i) == n.gn = "" \/ n.gn = config[i].groupName

\* C13: removeSpecificField(target) with a target tagged for a different
\* group neither detaches the target nor schedules its detachment
C13_ForeignTargetKept ==
    [][\A i \in Inst :
        (/\ lastOp'.op = "removeSpecificField" /\ lastOp'.inst = i
         /\ ~BelongsTo(nodes[lastOp'.arg], i))
        => /\ tree' = tree
           /\ timers' = timers]_vars

----------------------------------------------------------------------------
(* Instances that are not active *)

\* C14: on an instance that is uninitialized or whose setup failed, init,
\* addField, removeField, removeSpecificField and updateConfig return
\* without raising a fault and without mutating the tree
C14_InertWhenNotActive ==
    [][\A i \in Inst :
        (/\ lastOp'.inst = i /\ ~isInitialized[i] /\ ~isInitialized'[i]
         /\ lastOp'.op \in {"init", "addField", "removeField",
                            "removeSpecificField", "updateConfig"})
        => /\ lastOp'.ret # "throw"
           /\ tree' = tree /\ nodes' = nodes]_vars

----------------------------------------------------------------------------
(* The life of one instance with the user clicking its controls *)

NextClicks ==
    \/ \E i \in Inst : DoInit(i)
    \/ \E i \in Inst : DoAddField(i)
    \/ \E i \in Inst : DoRemoveField(i)
    \/ \E i \in Inst : \E t \in FieldGroups : DoRemoveSpecificField(i, t)
    \/ TimerFires
    \/ \E i \in Inst : DoDestroy(i)
    \/ \E b \in 1..Len(addBtns) : ClickAdd(b)
    \/ \E b \in 1..Len(removeBtns) : ClickRemove(b)
    \/ \E t \in FieldGroups : ClickRow(t)

InitClicks ==
    \E su \in LifeSetups : \E sp \in {0, 300} :
        Starts(Constructed(su[1], (1 :> Options(1, 2, su[2], sp, TRUE))), "new")

SpecClicks == InitClicks /\ [][NextClicks]_vars

\* destroy() was called on an instance whose setup had succeeded, and init()
\* has not run since
Destroyed(i) == ~isInitialized[i] /\ elements[i].found /\ validateSetup(Cur, i)

\* C15: after destroy() and until the next init(), no addField, removeField
\* or removeSpecificField call and no click on the add control, the remove
\* control or a per-row remove control the instance had bound adds,
\* detaches or schedules the detachment of a field
C15_DestroyedProcessesNothing ==
    [][\A i \in Inst :
        (/\ Destroyed(i)
         /\ \/ /\ lastOp'.inst = i
               /\ lastOp'.op \in {"addField", "removeField", "removeSpecificField"}
            \/ lastOp'.op = "clickAdd" /\ lastOp'.arg = elements[i].addButton
            \/ lastOp'.op = "clickRemove" /\ lastOp'.arg = elements[i].removeButton
            \/ /\ lastOp'.op = "clickRow"
               /\ nodes[lastOp'.arg].form = elements[i].fieldsContainer)
        => /\ tree' = tree /\ nodes' = nodes /\ timers' = timers]_vars

----------------------------------------------------------------------------
(* One instance with subscribers to its events *)

\* the events subscribed to
Subscribed == {"fieldAdded", "destroyed"}

NextEvents ==
    \/ \E i \in Inst : DoInit(i)
    \/ \E i \in Inst : DoAddField(i)
    \/ \E i \in Inst : DoRemoveField(i)
    \/ TimerFires
    \/ \E i \in Inst : DoDestroy(i)
    \/ \E i \in Inst : \E n \in Subscribed : \E cb \in Callbacks : DoOn(i, n, cb)

\* constructed with autoInit off, the removals animated
InitEvents ==
    Starts(Constructed(Page(SoleTemplate(""), <<Button("")>>, <<Button("")>>),
                       (1 :> Options(1, 2, "default", 300, TRUE))), "new")

SpecEvents == InitEvents /\ [][NextEvents]_vars

\* C16: destroy() leaves every element, its index, its attributes and the
\* order of the tree unchanged and invokes no subscriber; after it the
\* instance holds no subscriber, and at every step only callbacks registered
\* with the instance when the step began are invoked
C16_DestroyKeepsFieldsDropsSubscribers ==
    [][\A i \in Inst :
        /\ (lastOp'.op = "destroy" /\ lastOp'.inst = i)
           => /\ nodes' = nodes /\ tree' = tree
              /\ calls' = <<>>
              /\ events'[i] = NoEvents
        /\ \A k \in 1..Len(calls') :
             calls'[k].ev.inst = i
             => /\ calls'[k].ev.type \in DOMAIN events[i]
                /\ \E j \in 1..Len(events[i][calls'[k].ev.type]) :
                      events[i][calls'[k].ev.type][j].fn = calls'[k].fn]_vars

\* destroy() was called on an instance holding two fields and at least one
\* subscriber
C16_Witness ==
    /\ lastOp.op = "destroy" /\ lastOp.arg > 0
    /\ Count(lastOp.inst) = 2
    /\ events[lastOp.inst] = NoEvents /\ calls = <<>>

\* what the subscribers were handed: the callback and the event, in order
Heard(cs) == [k \in 1..Len(cs) |-> <<cs[k].fn, cs[k].ev>>]

RECURSIVE Due(_, _)
\* for the emit() calls lg made while ev was this.events: every callback
\* registered for each emitted event, in registration order
Due(lg, ev) ==
    IF lg = <<>> THEN <<>>
    ELSE LET subs == IF Head(lg).type \in DOMAIN ev THEN ev[Head(lg).type] ELSE <<>>
         IN [k \in 1..Len(subs) |-> <<subs[k].fn, Head(lg)>>] \o Due(Tail(lg), ev)

\* the same state with no callback raising
Quiet(S) ==
    [S EXCEPT !.events =
        [i \in DOMAIN S.events |->
            [n \in DOMAIN S.events[i] |->
                [k \in 1..Len(S.events[i][n]) |->
                    Callback(S.events[i][n][k].fn, FALSE)]]]]

\* the operation of a step, applied to state S
Applied(S, op, i, arg) ==
    CASE op = "init" -> init(S, i)
      [] op = "addField" -> addField(S, i, TRUE)
      [] op = "removeField" -> removeField(S, i)
      [] op = "timer" -> removeFieldElement([S EXCEPT !.timers = Tail(@)], i, arg)
      [] OTHER -> S

\* C17: when a subscriber raises during emit, every subscriber of each
\* emitted event is still invoked in order, and init, addField, removeField
\* and the deferred detachment end with the tree, the elements, the pending
\* detachments and the return value they have when no subscriber raises
C17_SubscriberFaultIsolated ==
    [][\A i \in Inst :
        (lastOp'.inst = i /\ lastOp'.op \in {"init", "addField", "removeField", "timer"})
        => /\ Heard(calls') = Due(log', events[i])
           /\ LET Q == Applied(Quiet(Cur), lastOp'.op, i, lastOp'.arg)
              IN /\ tree' = Q.tree /\ nodes' = Q.nodes /\ timers' = Q.timers
                 /\ lastOp'.ret = (IF lastOp'.op = "timer" THEN "none" ELSE Q.ret)]_vars

\* addField returned the new field although the first fieldAdded subscriber
\* raised, and the subscriber registered after it was invoked
C17_Witness ==
    /\ lastOp.op = "addField" /\ lastOp.ret = "field"
    /\ Len(calls) = 2
    /\ calls[1].caught /\ calls[1].ev.type = "fieldAdded"
    /\ ~calls[2].caught /\ calls[2].ev.type = "fieldAdded"
    /\ Count(lastOp.inst) = 2

----------------------------------------------------------------------------
(* The event notifier of two instances, driven through on, off and emit *)

\* <<instance, event name>> pairs callers subscribe to and emit
Named == {<<1, "fieldAdded">>, <<1, "constructor">>, <<2, "fieldAdded">>}

NextNotifier ==
    \/ \E x \in Named : \E cb \in Callbacks : DoOn(x[1], x[2], cb)
    \/ \E x \in Named : \E cb \in Callbacks : DoOff(x[1], x[2], cb)
    \/ \E x \in Named : DoOffAll(x[1], x[2])
    \/ \E x \in Named : DoEmit(x[1], x[2])

InitNotifier ==
    Starts(Constructed(Page(<<Node(Blank, "edu", FALSE, 0), Node(Blank, "work", FALSE, 0)>>,
                            <<Button("edu"), Button("work")>>,
                            <<Button("edu"), Button("work")>>),
                       (1 :> Options(1, 2, "edu", 0, TRUE))
                       @@ (2 :> Options(1, 2, "work", 0, TRUE))), "new")

SpecNotifier == InitNotifier /\ [][NextNotifier]_vars

\* the subscribers registered for a name, none when the name was never used
Subscribers(ev, eventName) == IF eventName \in DOMAIN ev THEN ev[eventName] ELSE <<>>

\* the subscriber lists of every other name of instance i and of every other
\* instance are what they were
OthersKept(i, eventName) ==
    /\ \A j \in Inst \ {i} : events'[j] = events[j]
    /\ \A n \in (DOMAIN events[i] \cup DOMAIN events'[i]) \ {eventName} :
          Subscribers(events'[i], n) = Subscribers(events[i], n)

\* C18: on(name, fn) appends fn last; off(name, fn) removes fn and keeps the
\* order of the others; off(name) removes all subscribers of name; emit(name)
\* invokes exactly the subscribers registered for name, in registration
\* order, each with an event of type name; on and off leave the lists of
\* other names and other instances alone
C18_NotifierOrdering ==
    [][\A i \in Inst :
        lastOp'.inst = i =>
        /\ lastOp'.op = "on"
           => /\ lastOp'.ret = "self"
              /\ Subscribers(events'[i], lastOp'.arg.name)
                    = Append(Subscribers(events[i], lastOp'.arg.name),
                             lastOp'.arg.callback)
              /\ OthersKept(i, lastOp'.arg.name)
        /\ lastOp'.op = "off"
           => /\ lastOp'.ret = "self"
              /\ Subscribers(events'[i], lastOp'.arg.name)
                    = SelectSeq(Subscribers(events[i], lastOp'.arg.name),
                                LAMBDA cb : cb # lastOp'.arg.callback)
              /\ OthersKept(i, lastOp'.arg.name)
        /\ lastOp'.op = "offAll"
           => /\ lastOp'.ret = "self"
              /\ Subscribers(events'[i], lastOp'.arg.name) = <<>>
              /\ OthersKept(i, lastOp'.arg.name)
        /\ lastOp'.op = "emit"
           => /\ lastOp'.ret = "self"
              /\ Len(calls') = Len(Subscribers(events[i], lastOp'.arg.name))
              /\ \A k \in 1..Len(calls') :
                    /\ calls'[k].fn = Subscribers(events[i], lastOp'.arg.name)[k].fn
                    /\ calls'[k].ev.type = lastOp'.arg.name
              /\ events' = events]_vars

----------------------------------------------------------------------------
(* Removals in flight *)

\* the fields whose deferred detachment is pending
Fading(S) == {S.timers[k].node : k \in 1..Len(S.timers)}

\* C19: with transitions enabled, a removeField() accepted while an earlier
\* removal is still in flight schedules the detachment of a field that is
\* not already fading
C19_SecondRemovalTargetsAnother ==
    [][\A i \in Inst :
        (/\ lastOp'.op = "removeField" /\ lastOp'.inst = i /\ lastOp'.ret = "true"
         /\ config[i].animationSpeed > 0 /\ timers # <<>>)
        => /\ Len(timers') = Len(timers) + 1
           /\ timers'[Len(timers')].node \notin Fading(Cur)]_vars

\* every field whose detachment is pending is in the tree and counted by the
\* instance that accepted the request
InFlightCounted ==
    \A k \in 1..Len(timers) :
        /\ Attached(Cur, timers[k].node)
        /\ timers[k].node \in OwnFields(timers[k].inst)

\* C20: with animationSpeed > 0, from the accepted removal request until its
\* deferred detachment fires the target stays in the tree and is counted by
\* getFieldCount(), and the count decreases only when a detachment fires
C20_CountedWhileInFlight ==
    [][/\ InFlightCounted'
       /\ \A i \in Inst :
            (config[i].animationSpeed > 0 /\ Count(i)' < Count(i))
            => lastOp'.op = "timer"]_vars

----------------------------------------------------------------------------
(* Deferred detachment of a field that already left the tree *)

\* element id is not a child of any fields container
Gone(id) == \A k \in 1..Len(tree) : tree[k] # id

\* C21: a deferred detachment that fires for a field which has already left
\* the tree does nothing: no fault, the tree, the elements and the controls
\* are as before, and no event (fieldRemoved included) is emitted
C21_StaleTargetIsNoOp ==
    [][(lastOp'.op = "timer" /\ Gone(lastOp'.arg))
       => /\ lastOp'.ret # "throw"
          /\ tree' = tree /\ nodes' = nodes
          /\ addBtns' = addBtns /\ removeBtns' = removeBtns
          /\ fieldCounter' = fieldCounter
          /\ log' = <<>> /\ calls' = <<>>]_vars

\* a deferred detachment has just fired for a field that was already detached
C21_Witness ==
    /\ lastOp.op = "timer" /\ Gone(lastOp.arg)
    /\ log = <<>>
    /\ lastOp.arg \in {a[1] : a \in assigned[lastOp.inst]}

----------------------------------------------------------------------------
(* Naming of the form elements inside the fields *)

\* the documented single-group markup, the field holding an input alone, a
\* label followed by its input, or an input followed by its label
NamingPages ==
    { Page(<<Labelled(Node(Blank, "", FALSE, 0), w)>>, <<Button("")>>, <<Button("")>>) :
        w \in {"none", "before", "after"} }

InitNaming ==
    \E pg \in NamingPages : \E sp \in {0, 300} :
        Starts(Constructed(pg, (1 :> Options(1, 3, "default", sp, TRUE))), "new")

SpecNaming == InitNaming /\ [][NextLife]_vars

\* C22: in every reachable state (init, addField, removals, destroy and
\* re-init included) every identifying attribute of an attached field with
\* index i is the authored value behind exactly one `${fieldPrefix}-${i}-`
C22_NamesPrefixedOnce ==
    \A k \in 1..Len(tree) :
        LET n == nodes[tree[k]]
        IN n.fg > 0 => /\ n.name = <<n.fg>>
                       /\ n.label # "none" => n.lfor = <<n.fg>>

\* C29: when init() finds the authored template as the sole field, afterwards
\* that element is the one live field, index 1, its identifiers the authored
\* ones behind `${fieldPrefix}-1-`, and the clone source is one new hidden
\* element without values whose identifiers are the authored ones
C29_ConversionRoundTrip ==
    [][\A i \in Inst :
        (/\ lastOp'.op = "init" /\ lastOp'.inst = i
         /\ ~isInitialized[i] /\ isInitialized'[i]
         /\ Len(tree) = 1 /\ nodes[tree[1]].fg = Blank
         /\ IsOwn(nodes[tree[1]], config[i].groupName))
        => LET t == tree[1]
               h == elements'[i].sourceField
           IN /\ LiveIndices(i)' = {1}
              /\ nodes'[t].fg = 1 /\ ~nodes'[t].hidden
              /\ nodes'[t].name = Prefixed(1, nodes[t].name)
              /\ nodes'[t].label # "none" => nodes'[t].lfor = Prefixed(1, nodes[t].name)
              /\ tree' = <<t, h>> /\ h # t
              /\ nodes'[h].hidden /\ ~nodes'[h].val /\ nodes'[h].fg = NoAttr
              /\ nodes'[h].name = nodes[t].name
              /\ nodes'[h].label # "none" => nodes'[h].lfor = nodes[t].name]_vars

----------------------------------------------------------------------------
(* The clone source *)

\* C23: in every state of an active instance, whatever the authored tree,
\* the template (the element new fields are cloned from) is in the tree and
\* is not one of the elements getFieldCount() counts
C23_TemplateKeptUncounted ==
    \A i \in Inst :
        isInitialized[i]
        => /\ elements[i].sourceField # Null
           /\ ~Gone(elements[i].sourceField)
           /\ elements[i].sourceField \notin OwnFields(i)

----------------------------------------------------------------------------
(* init() on an initialized instance *)

\* C24: a second init() on an already initialized instance changes nothing:
\* no field is created or renamed, no element is located again, no listener
\* is bound, the counter keeps its value and no `initialized` event is emitted
C24_InitIdempotent ==
    [][\A i \in Inst :
        (lastOp'.op = "init" /\ lastOp'.inst = i /\ isInitialized[i])
        => /\ lastOp'.ret = "self"
           /\ nodes' = nodes /\ tree' = tree
           /\ addBtns' = addBtns /\ removeBtns' = removeBtns
           /\ rowListeners' = rowListeners
           /\ elements' = elements /\ config' = config
           /\ fieldCounter' = fieldCounter /\ assigned' = assigned
           /\ isInitialized' = isInitialized
           /\ timers' = timers /\ events' = events
           /\ log' = <<>> /\ calls' = <<>>]_vars

\* init() has just returned on an instance that was initialized before and
\* has added fields since
C24_Witness ==
    /\ lastOp.op = "init" /\ lastOp.inst = 1
    /\ isInitialized[1] /\ log = <<>>
    /\ fieldCounter[1] >= 2 /\ Count(1) >= 2

----------------------------------------------------------------------------
(* validateOnAdd: fields holding a required input, values typed by the user *)

\* the user types into (v) or empties (~v) the input of an attached field
DoInput(t, v) ==
    /\ nodes[t].val # v
    /\ Becomes([Cur EXCEPT !.nodes[t].val = v], "input", 0, t)

NextValidate ==
    \/ \E i \in Inst : DoAddField(i)
    \/ \E i \in Inst : DoRemoveField(i)
    \/ TimerFires
    \/ \E t \in FieldGroups : \E v \in BOOLEAN : DoInput(t, v)

\* the documented single-group markup with and without `required` on the input
ValidatePages ==
    { Page(<<Required(Node(Blank, "", FALSE, 0))>>, <<Button("")>>, <<Button("")>>),
      Page(SoleTemplate(""), <<Button("")>>, <<Button("")>>) }

ValidateOptions ==
    { [Options(b[1], b[2], "default", sp, TRUE) EXCEPT !.validateOnAdd = TRUE] :
        b \in {<<0, 2>>, <<1, 3>>}, sp \in {0, 300} }

InitValidate ==
    \E pg \in ValidatePages : \E o \in ValidateOptions :
        Starts(InitAll(Constructed(pg, (1 :> o)), 1), "new")

SpecValidate == InitValidate /\ [][NextValidate]_vars

\* some required input of a field owned by instance i is empty
EmptyRequired(i) == \E t \in OwnFields(i) : nodes[t].req /\ ~nodes[t].val

\* C25: with validateOnAdd enabled and the count below maxFields, addField()
\* refuses exactly when some required input of an own field is empty; a
\* refusal emits validationFailed, returns false, leaves the counter and the
\* tree as they were
C25_ValidateOnAdd ==
    [][\A i \in Inst :
        (/\ lastOp'.op = "addField" /\ lastOp'.inst = i
         /\ config[i].validateOnAdd /\ Count(i) < config[i].maxFields)
        => /\ (lastOp'.ret = "false") <=> EmptyRequired(i)
           /\ ~EmptyRequired(i) => lastOp'.ret = "field"
           /\ EmptyRequired(i)
              => /\ Emitted(log', "validationFailed") # <<>>
                 /\ Emitted(log', "fieldAdded") = <<>>
                 /\ fieldCounter' = fieldCounter
                 /\ tree' = tree /\ nodes' = nodes]_vars

\* addField() has just been refused below maxFields because the field added
\* before still has its required input empty
C25_Witness ==
    /\ lastOp.op = "addField" /\ lastOp.ret = "false"
    /\ Emitted(log, "validationFailed") # <<>>
    /\ Count(1) >= 2 /\ Count(1) < config[1].maxFields
    /\ \E t \in OwnFields(1) : nodes[t].req /\ nodes[t].val

----------------------------------------------------------------------------
(* Construction: the options object and the configuration resolved from it *)

\* one value for every key an options object may carry; theme is a key the
\* library does not know
Supplied ==
    [maxFields : {0, 3}, minFields : {0, 2}, fieldPrefix : {"", "edu"},
     groupName : {"", "edu"}, validateOnAdd : BOOLEAN,
     hideRemoveButtonWhenMinReached : BOOLEAN,
     onFieldAdded : {Callback(3, FALSE)}, theme : {"dark"}]

OptionKeys ==
    {"maxFields", "minFields", "fieldPrefix", "groupName", "validateOnAdd",
     "hideRemoveButtonWhenMinReached", "onFieldAdded", "theme"}

\* `new DynamicFields({...options, autoInit: false})` on the single-group page
DoConstruct ==
    /\ lastOp.op = "options"
    /\ Becomes([Constructed(Page(nodes, addBtns, removeBtns),
                            (1 :> constructor(lastOp.arg)))
                   EXCEPT !.ret = "instance"],
               "construct", 1, lastOp.arg)

NextConfig == DoConstruct

\* the page is loaded, the caller holds the options object, no instance yet
InitConfig ==
    \E full \in Supplied : \E keys \in SUBSET OptionKeys :
        LET S == Constructed(Page(SoleTemplate(""), <<Button("")>>, <<Button("")>>), <<>>)
        IN /\ nodes = S.nodes /\ tree = S.tree
           /\ addBtns = S.addBtns /\ removeBtns = S.removeBtns
           /\ rowListeners = S.rowListeners
           /\ config = S.config /\ fieldCounter = S.fieldCounter
           /\ isInitialized = S.isInitialized /\ elements = S.elements
           /\ timers = S.timers /\ log = S.log /\ assigned = S.assigned
           /\ events = S.events /\ calls = S.calls /\ held = S.held
           /\ lastOp = [op |-> "options", inst |-> 0,
                        arg |-> [k \in keys |-> full[k]], ret |-> "none"]

SpecConfig == InitConfig /\ [][NextConfig]_vars

\* the defaults the README's "Configuration Options" table gives
Documented ==
    [maxFields |-> 10, minFields |-> 1, fieldPrefix |-> "field",
     groupName |-> "default", validateOnAdd |-> FALSE,
     hideRemoveButtonWhenMinReached |-> TRUE]

\* C27: the resolved configuration holds every supplied option (unknown keys
\* included) with the supplied value, and for every omitted option the
\* documented default: maxFields 10, minFields 1, fieldPrefix "field",
\* groupName "default", validateOnAdd false, hideRemoveButtonWhenMinReached true
C27_ConfigurationDefaults ==
    lastOp.op = "construct"
    => /\ \A k \in DOMAIN lastOp.arg : /\ k \in DOMAIN config[1]
                                       /\ config[1][k] = lastOp.arg[k]
       /\ \A k \in DOMAIN Documented \ DOMAIN lastOp.arg :
             /\ k \in DOMAIN config[1]
             /\ config[1][k] = Documented[k]

----------------------------------------------------------------------------
(* Callbacks handed over as configuration properties *)

\* the option the README's "Event Handling" section gives for each event
OptionFor ==
    [fieldAdded |-> "onFieldAdded", fieldRemoved |-> "onFieldRemoved",
     maxFieldsReached |-> "onMaxFieldsReached",
     minFieldsReached |-> "onMinFieldsReached"]

\* options objects carrying the four callbacks
CallbackOptions ==
    { [minFields |-> b[1], maxFields |-> b[2], animationSpeed |-> sp,
       onFieldAdded |-> Callback(3, FALSE), onFieldRemoved |-> Callback(4, FALSE),
       onMaxFieldsReached |-> Callback(5, FALSE),
       onMinFieldsReached |-> Callback(6, FALSE)] :
        b \in {<<0, 2>>, <<1, 2>>, <<1, 3>>}, sp \in {0, 300} }

\* `new DynamicFields(options)` with autoInit left on, single-group page
InitCallbacks ==
    \E o \in CallbackOptions :
        Starts(InitAll(Constructed(Page(SoleTemplate(""), <<Button("")>>, <<Button("")>>),
                                   (1 :> constructor(o))), 1), "new")

SpecCallbacks == InitCallbacks /\ [][NextActive]_vars

\* callback is among the functions invoked
Invoked(cs, callback) == \E k \in 1..Len(cs) : cs[k].fn = callback.fn

\* C26: a callback supplied at construction as onFieldAdded, onFieldRemoved,
\* onMaxFieldsReached or onMinFieldsReached is invoked each time the event it
\* is named after occurs
C26_CallbackOptionsInvoked ==
    [][\A i \in Inst : \A e \in DOMAIN OptionFor :
        (/\ OptionFor[e] \in DOMAIN config[i]
         /\ \E k \in 1..Len(log') : log'[k].type = e /\ log'[k].inst = i)
        => Invoked(calls', config[i][OptionFor[e]])]_vars

----------------------------------------------------------------------------
(* Initialization on a page where the instance owns no field yet *)

\* the template authored outside the fields container (in a container of
\* its own, later in the document), its input with or without `required`
BootstrapPages ==
    { Page(<<InForm(Node(Blank, "", FALSE, 0), 2)>>, <<Button("")>>, <<Button("")>>),
      Page(<<InForm(Required(Node(Blank, "", FALSE, 0)), 2)>>,
           <<Button("")>>, <<Button("")>>) }

BootstrapOptions ==
    { [Options(b[1], b[2], "default", 0, TRUE) EXCEPT !.validateOnAdd = v] :
        b \in {<<0, 1>>, <<1, 2>>, <<2, 3>>}, v \in BOOLEAN }

InitBootstrap ==
    \E pg \in BootstrapPages : \E o \in BootstrapOptions :
        Starts(Constructed(pg, (1 :> o)), "new")

NextBootstrap ==
    \/ \E i \in Inst : DoInit(i)
    \/ \E i \in Inst : DoAddField(i)
    \/ \E i \in Inst : DoRemoveField(i)
    \/ \E t \in FieldGroups : \E v \in BOOLEAN : DoInput(t, v)

SpecBootstrap == InitBootstrap /\ [][NextBootstrap]_vars

\* C28: when init() finds the template but no field owned by the instance
\* and minFields <= maxFields, it ends with getFieldCount() = minFields and
\* the created fields carry the indices 1..minFields
C28_BootstrapFromZero ==
    [][\A i \in Inst :
        (/\ lastOp'.op = "init" /\ lastOp'.inst = i
         /\ ~isInitialized[i] /\ isInitialized'[i]
         /\ ValidBounds(config[i])
         /\ getCurrentFieldCount(findElements(Cur, i), i) = 0)
        => /\ Count(i)' = config[i].minFields
           /\ LiveIndices(i)' = 1..config[i].minFields]_vars

----------------------------------------------------------------------------
(* Where a new field is placed *)

\* the place of element id among the children, 0 if it is not there
Position(tr, id) == First([k \in 1..Len(tr) |-> tr[k] = id])

\* the indexed fields instance i counts stand in ascending index order
Ascending(i) ==
    LET own == getOwnFieldGroups(Cur, i)
    IN \A p, q \in 1..Len(own) :
          (p < q /\ nodes[own[p]].fg > 0 /\ nodes[own[q]].fg > 0)
          => nodes[own[p]].fg < nodes[own[q]].fg

\* C30: a field added with success stands right after the field that was the
\* instance's last own field, every other element keeps its place relative
\* to the others, and after every add and removal the instance's fields are
\* in ascending index order
C30_InsertedAfterLastOwn ==
    [][\A i \in Inst :
        /\ (lastOp'.op = "addField" /\ lastOp'.inst = i /\ lastOp'.ret = "field")
           => LET new == Len(nodes')
                  own == getOwnFieldGroups(Cur, i)
              IN /\ Len(nodes') = Len(nodes) + 1
                 /\ SelectSeq(tree', LAMBDA x : x # new) = tree
                 /\ own # <<>>
                    => Position(tree', new) = Position(tree, own[Len(own)]) + 1
        /\ (isInitialized[i] /\ lastOp'.op \in {"addField", "removeField",
                                                 "removeSpecificField", "timer"})
           => Ascending(i)']_vars

----------------------------------------------------------------------------
(* Labels and the controls they point to *)

\* C31: in every field the naming rewrite has gone over (the converted field
\* #1 or a clone), whatever the order of label and control inside the field,
\* the label's `for` equals the identifier its control ends with
C31_LabelLinked ==
    \A id \in 1..Len(nodes) :
        (nodes[id].fg > 0 /\ nodes[id].label # "none")
        => nodes[id].lfor = nodes[id].name

----------------------------------------------------------------------------
(* The controls an instance locates *)

\* control b of btns may serve instance i: it is tagged with the instance's
\* group name or carries no group name
MayServe(btns, b, i) == btns[b].gn = "" \/ btns[b].gn = config[i].groupName

\* C32: the add and the remove control an instance holds are tagged with its
\* own group name or untagged, never tagged with another group's name
C32_ControlsOfOwnGroup ==
    \A i \in Inst :
        elements[i].found
        => /\ elements[i].addButton # Null
              => MayServe(addBtns, elements[i].addButton, i)
           /\ elements[i].removeButton # Null
              => MayServe(removeBtns, elements[i].removeButton, i)

----------------------------------------------------------------------------
(* Configurations with minFields above maxFields *)

InconsistentOptions ==
    { Options(b[1], b[2], "default", sp, TRUE) :
        b \in {<<2, 1>>, <<3, 2>>, <<1, 0>>}, sp \in {0, 300} }

\* the documented single-group markup and a page with two rendered fields
InconsistentPages ==
    { Page(SoleTemplate(""), <<Button("")>>, <<Button("")>>),
      Page(TwoAuthored, <<Button("")>>, <<Button("")>>) }

InitInconsistent ==
    \E pg \in InconsistentPages : \E o \in InconsistentOptions :
        Starts(Constructed(pg, (1 :> o)), "new")

NextInconsistent ==
    \/ \E i \in Inst : DoInit(i)
    \/ \E i \in Inst : DoAddField(i)
    \/ \E i \in Inst : DoRemoveField(i)
    \/ \E i \in Inst : \E t \in OwnFields(i) : DoRemoveSpecificField(i, t)
    \/ TimerFires

SpecInconsistent == InitInconsistent /\ [][NextInconsistent]_vars

\* C33: an instance configured with minFields > maxFields initializes without
\* error, and afterwards every addField(), removeField() and
\* removeSpecificField() is refused and the fields stay as they are
C33_InconsistentBoundsFreeze ==
    [][\A i \in Inst :
        /\ (lastOp'.op = "init" /\ lastOp'.inst = i) => lastOp'.ret = "self"
        /\ (/\ isInitialized[i] /\ lastOp'.inst = i
            /\ config[i].minFields > config[i].maxFields
            /\ lastOp'.op \in {"addField", "removeField", "removeSpecificField"})
           => /\ lastOp'.ret = "false"
              /\ tree' = tree /\ nodes' = nodes /\ timers' = timers]_vars

----------------------------------------------------------------------------
(* Subscribers that call back into the instance *)

\* a subscriber of fieldAdded or fieldRemoved that only listens, next to a
\* subscriber of buttonStatesUpdated that only listens, calls addField() or
\* calls removeField()
ReentrantSubscriptions ==
    { <<e, cb>> : e \in {"fieldAdded", "fieldRemoved"},
                  cb \in {Callback(2, FALSE), Reentrant(2, "addField"),
                          Reentrant(2, "removeField")} }

\* `new DynamicFields(options)` on the single-group markup, then two on() calls
InitReentrant ==
    \E su \in ReentrantSubscriptions : \E sp \in {0, 300} : \E b \in {<<0, 2>>, <<1, 3>>} :
        LET S0 == InitAll(Constructed(Page(SoleTemplate(""), <<Button("")>>, <<Button("")>>),
                                      (1 :> Options(b[1], b[2], "default", sp, TRUE))), 1)
            S1 == on(S0, 1, su[1], Callback(1, FALSE))
            S2 == on(S1, 1, "buttonStatesUpdated", su[2])
        IN Starts([S2 EXCEPT !.log = <<>>, !.calls = <<>>], "new")

SpecReentrant == InitReentrant /\ [][NextActive]_vars

\* C34: whenever a fieldAdded subscriber is invoked, the fieldIndex it gets is
\* the index attribute of the field it gets and totalFields is the count
\* getFieldCount() has at that moment; whenever a fieldRemoved subscriber is
\* invoked, totalFields is the count at that moment; subscribers of
\* buttonStatesUpdated may call addField() or removeField() meanwhile
C34_PayloadMatchesState ==
    \A k \in 1..Len(calls) :
        /\ calls[k].ev.type = "fieldAdded"
           => /\ calls[k].ev.index = nodes[calls[k].ev.node].fg
              /\ calls[k].ev.count = calls[k].total
        /\ calls[k].ev.type = "fieldRemoved"
           => calls[k].ev.count = calls[k].total

----------------------------------------------------------------------------
(* Listeners over init, destroy and init again *)

\* how many of the click listeners ls call into instance i
Executions(ls, i) == Len(SelectSeq(ls, LAMBDA x : x = i))

\* C35: over any sequence of init, destroy and init again, one click on the
\* add control runs addField() of an instance at most once, and one click on
\* the remove control runs its removeField() at most once
C35_OneExecutionPerClick ==
    [][\A i \in Inst :
        /\ lastOp'.op = "clickAdd"
           => Executions(addBtns[lastOp'.arg].listeners, i) <= 1
        /\ lastOp'.op = "clickRemove"
           => Executions(removeBtns[lastOp'.arg].listeners, i) <= 1]_vars

----------------------------------------------------------------------------
(* The destroyed event *)

\* the callbacks invoked for event type of instance i, in order
InvokedFor(cs, type, i) ==
    LET sel == SelectSeq(cs, LAMBDA c : c.ev.type = type /\ c.ev.inst = i)
    IN [k \in 1..Len(sel) |-> sel[k].fn]

\* C36: destroy() invokes every subscriber registered for `destroyed` before
\* the call exactly once, with the instance identifier
C36_DestroyedDelivered ==
    [][\A i \in Inst :
        (/\ lastOp'.op = "destroy" /\ lastOp'.inst = i
         /\ "destroyed" \in DOMAIN events[i])
        => InvokedFor(calls', "destroyed", i)
             = [k \in 1..Len(events[i]["destroyed"]) |-> events[i]["destroyed"][k].fn]]_vars

----------------------------------------------------------------------------
(* Removals with an exit transition, the timers firing in the end *)

InitRemoval ==
    \E o \in {Options(1, 2, "default", 300, TRUE)} :
        Starts(InitAll(Constructed(Page(SoleTemplate(""), <<Button("")>>, <<Button("")>>),
                                   (1 :> o)), 1), "new")

\* setTimeout: a pending callback runs after its delay
SpecRemoval == InitRemoval /\ [][NextActive]_vars /\ WF_vars(TimerFires)

\* C37: with transitions enabled, an accepted removal request schedules the
\* detachment of its target and changes nothing else, a refused one schedules
\* nothing; every field whose detachment is scheduled leaves the tree in the
\* end; the detachment emits fieldRemoved once, and a timer that fires for a
\* field already gone emits nothing
C37_RemovalLiveness ==
    /\ \A n \in 1..MaxNodes : (n \in Fading(Cur) /\ ~Gone(n)) ~> Gone(n)
    /\ [][\A i \in Inst :
            (config[i].animationSpeed > 0 /\ lastOp'.inst = i)
            => /\ (lastOp'.op \in {"removeField", "removeSpecificField"}
                     /\ lastOp'.ret = "true")
                  => /\ Len(timers') = Len(timers) + 1
                     /\ ~Gone(timers'[Len(timers')].node)
                     /\ lastOp'.op = "removeSpecificField"
                        => timers'[Len(timers')].node = lastOp'.arg
                     /\ tree' = tree /\ Emitted(log', "fieldRemoved") = <<>>
               /\ (lastOp'.op \in {"removeField", "removeSpecificField"}
                     /\ lastOp'.ret = "false")
                  => /\ timers' = timers /\ tree' = tree
                     /\ Emitted(log', "fieldRemoved") = <<>>
               /\ lastOp'.op = "timer"
                  => IF Gone(lastOp'.arg)
                     THEN tree' = tree /\ Emitted(log', "fieldRemoved") = <<>>
                     ELSE /\ Gone(lastOp.arg)'
                          /\ Len(Emitted(log', "fieldRemoved")) = 1]_vars

\* a field targeted by two accepted requests has just been detached with one
\* fieldRemoved, the second timer still pending
C37_Witness ==
    /\ lastOp.op = "timer" /\ Gone(lastOp.arg)
    /\ Len(Emitted(log, "fieldRemoved")) = 1
    /\ lastOp.arg \in Fading(Cur)

----------------------------------------------------------------------------
(* Controls are brought up to date before the lifecycle notifications *)

Lifecycle == {"fieldAdded", "fieldRemoved"}

\* C38: every fieldAdded and fieldRemoved follows a buttonStatesUpdated of the
\* same operation that carries the same count, and whenever a subscriber of
\* either is invoked the add control is disabled iff the count of that moment
\* has reached maxFields and the remove control is disabled (and hidden, when
\* hideRemoveButtonWhenMinReached is set) iff it is at or below minFields;
\* subscribers of buttonStatesUpdated may call addField() or removeField()
C38_ControlsBeforeNotification ==
    /\ \A k \in 1..Len(log) :
          log[k].type \in Lifecycle
          => \E j \in 1..(k - 1) :
                /\ log[j].type = "buttonStatesUpdated"
                /\ log[j].inst = log[k].inst /\ log[j].count = log[k].count
    /\ \A k \in 1..Len(calls) :
          calls[k].ev.type \in Lifecycle
          => LET cfg == config[calls[k].ev.inst]
                 c == calls[k].controls
             IN /\ c.add <=> calls[k].total >= cfg.maxFields
                /\ c.remove <=> calls[k].total <= cfg.minFields
                /\ cfg.hideRemoveButtonWhenMinReached
                   => (c.display = "none" <=> calls[k].total <= cfg.minFields)

\* a fieldAdded subscriber runs after a buttonStatesUpdated subscriber added
\* a further field, and finds the add control disabled at the limit
C38_Witness ==
    \E k \in 1..Len(calls) :
        /\ calls[k].ev.type = "fieldAdded"
        /\ calls[k].total > calls[k].ev.count
        /\ calls[k].controls.add

----------------------------------------------------------------------------
(* updateConfig() and getConfig() on a running instance *)

InitUpdate ==
    \E o \in {Options(0, 3, "default", sp, TRUE) : sp \in {0, 300}} :
        Starts(InitAll(Constructed(Page(SoleTemplate(""), <<Button("")>>, <<Button("")>>),
                                   (1 :> o)), 1), "new")

NextUpdate ==
    \/ NextActive
    \/ \E i \in Inst : \E p \in Partials : DoUpdateConfig(i, p)
    \/ \E i \in Inst : DoGetConfig(i)

SpecUpdate == InitUpdate /\ [][NextUpdate]_vars

\* what the holder of an object handed out by getConfig() reads from it
Seen(h) == IF h.same THEN config[h.inst] ELSE h.object

\* the controls apart from what updateButtonStates writes
Unwritten(btns) == [b \in DOMAIN btns |-> [btns[b] EXCEPT !.disabled = FALSE, !.display = ""]]

\* C39: updateConfig(partial) on an initialized instance leaves the tree, the
\* fields and their attributes, the index counter, the subscriber table, the
\* listeners and the pending timers as they were; the configuration becomes
\* the old one overlaid with partial, the controls get the states computed
\* from the current count and the new bounds, and every object getConfig()
\* handed out before reads as it did
C39_UpdateConfigFrame ==
    [][\A i \in Inst :
        (lastOp'.op = "updateConfig" /\ lastOp'.inst = i /\ isInitialized[i])
        => /\ nodes' = nodes /\ tree' = tree
           /\ fieldCounter' = fieldCounter /\ assigned' = assigned
           /\ events' = events /\ rowListeners' = rowListeners
           /\ timers' = timers /\ elements' = elements
           /\ isInitialized' = isInitialized
           /\ \E p \in Partials : config' = [config EXCEPT ![i] = Merge(@, p)]
           /\ Unwritten(addBtns') = Unwritten(addBtns)
           /\ Unwritten(removeBtns') = Unwritten(removeBtns)
           /\ InSync(Cur, i)'
           /\ [k \in DOMAIN held' |-> Seen(held[k])'] = [k \in DOMAIN held |-> Seen(held[k])]]_vars

\* updateConfig({maxFields: 2}) has just disabled the add control at two
\* fields, and an object handed out before still reads the old maxFields
C39_Witness ==
    /\ lastOp.op = "updateConfig" /\ isInitialized[lastOp.inst]
    /\ held # <<>> /\ Seen(held[1]).maxFields # config[held[1].inst].maxFields
    /\ addBtns[elements[lastOp.inst].addButton].disabled
    /\ getCurrentFieldCount(Cur, lastOp.inst) = 2

====
